---- MODULE Spec2Model ----
(***************************************************************************)
(* Room-relay protocol of the tic-tac-toe server (src/server.ts) and the   *)
(* online part of the client (src/src/App.tsx).                            *)
(*                                                                         *)
(* Spec     the server alone: every handler runs to completion on a        *)
(*          request from any open connection with any payload.             *)
(* SpecNet  the server and two clients in online mode, joined by FIFO      *)
(*          channels per connection; every request is one the client's     *)
(*          handlers emit.                                                 *)
(* SpecPlay      the same, on six cells and without reset or quit.         *)
(* SpecRoom      one connection plays one room to the full board.          *)
(* SpecPayload   one connection sends make_move payloads of any shape.     *)
(* SpecTwoRooms  two connections share the rooms A and B.                  *)
(* SpecSingle    the client in single-player mode against the AI.          *)
(* SpecEval      checkWinner and getBestMove applied to every board.       *)
(* SpecSelfPlay  getBestMove playing both sides.                           *)
(***************************************************************************)
EXTENDS Integers, Sequences, FiniteSets, TLC

\* ------------------------------------------------------------------ bounds
\* most marks on a board between resets
MaxMarks == 3

\* most messages on their way to one client
MaxQueue == 2

\* most empty cells of a position other than the empty board a self-played game starts from
MaxSelfEmpty == 3

\* socket ids the server can see
Conns == {"s1", "s2", "s3"}

\* the socket id that plays a room to the full board
RoomConns == {"s1"}

\* the socket ids that share two rooms
TwoConns == {"s1", "s2"}

\* the socket ids the clients' io() calls get, in order
ConnOrder == <<"s1", "s2">>

\* room codes a make_move or reset_game payload may name
Codes == {"A", "B"}

\* room codes clients join; "B" stays a code the registry never saw
JoinCodes == {"A"}

\* cell indices of a board, row-major
Cells == 0..8

\* indices a make_move payload may carry (9 lies outside the board)
Indices == {0, 4, 8, 9}

\* browser tabs running the client
Apps == {"a1", "a2"}

\* cells the users click
ClickCells == {0, 4}

\* cells the users click in a game played to its end
PlayCells == {0, 1, 2, 3, 4, 5}

\* symbols a make_move payload may carry ("Z" is no player symbol)
Symbols == {"X", "O", "Z"}

\* ------------------------------------------------------------- data model
Null == "null"

\* indices of a make_move payload a client is free to send: below, on and above the board
PayloadIndices == {-1, 0, 1, 4, 8, 9}

\* symbols of a make_move payload a client is free to send: a player
\* symbol, another string, null, the empty string
PayloadSymbols == {"X", "O", "Z", Null, ""}

EmptyBoard == [i \in Cells |-> Null]

\* board/turn fields of a unicast message, which carries neither
NoBoard == [i \in Cells |-> "undefined"]

\* an array whose cells outside 0..8 read as null
BoardAt_NullOutside(board, index) == IF index \in DOMAIN board THEN board[index] ELSE Null

\* room.board[index]: reading outside the array yields undefined
BoardAt(board, index) == IF index \in DOMAIN board THEN board[index] ELSE "undefined"

NewRoom_TurnO(id) == [players |-> <<id>>, board |-> EmptyBoard, turn |-> "O"]

\* the record rooms.set stores on the first join
NewRoom(id) == [players |-> <<id>>, board |-> EmptyBoard, turn |-> "X"]

Other_Same(symbol) == symbol

\* symbol === 'X' ? 'O' : 'X'
Other(symbol) == IF symbol = "X" THEN "O" ELSE "X"

HasSeat_Three(room) == Len(room.players) < 3

\* room.players.length < 2
HasSeat(room) == Len(room.players) < 2

ResetRoom_KeepsTurn(room) == [room EXCEPT !.board = EmptyBoard]

\* room.board = Array(9).fill(null); room.turn = 'X'
ResetRoom(room) == [room EXCEPT !.board = EmptyBoard, !.turn = "X"]

Marks(board) == Cardinality({i \in Cells : board[i] # Null})

\* the triples with the diagonals tried first
WINNING_COMBINATIONS_DiagonalsFirst ==
    << <<0, 4, 8>>, <<2, 4, 6>>,
       <<0, 1, 2>>, <<3, 4, 5>>, <<6, 7, 8>>,
       <<0, 3, 6>>, <<1, 4, 7>>, <<2, 5, 8>> >>

WINNING_COMBINATIONS ==
    << <<0, 1, 2>>, <<3, 4, 5>>, <<6, 7, 8>>,
       <<0, 3, 6>>, <<1, 4, 7>>, <<2, 5, 8>>,
       <<0, 4, 8>>, <<2, 4, 6>> >>

\* checkWinner returning null
NoResult == [winner |-> Null, line |-> <<>>]

\* the first uniform non-empty triple in the fixed order, else Draw on a full board
checkWinner(squares) ==
    LET hit(k) == LET combo == WINNING_COMBINATIONS[k]
                  IN /\ squares[combo[1]] # Null
                     /\ squares[combo[1]] = squares[combo[2]]
                     /\ squares[combo[1]] = squares[combo[3]]
        hits == {k \in 1..Len(WINNING_COMBINATIONS) : hit(k)}
    IN IF hits # {}
       THEN LET k == CHOOSE h \in hits : \A g \in hits : h <= g
            IN [winner |-> squares[WINNING_COMBINATIONS[k][1]],
                line |-> WINNING_COMBINATIONS[k]]
       ELSE IF \A i \in Cells : squares[i] # Null
       THEN [winner |-> "Draw", line |-> <<>>]
       ELSE NoResult

\* Infinity of the score arithmetic: beyond every score minimax returns
Infinity == 1000

\* Math.max / Math.min folded over the scores, from -Infinity / Infinity
Max(scores) == CHOOSE m \in scores \cup {-Infinity} :
                  \A n \in scores \cup {-Infinity} : m >= n

Min(scores) == CHOOSE m \in scores \cup {Infinity} :
                  \A n \in scores \cup {Infinity} : m <= n

\* the cells the loops for (i = 0; i < 9; i++) if (!squares[i]) visit
EmptyCells(squares) == {i \in Cells : squares[i] = Null}

RECURSIVE minimax(_, _, _, _)

\* a minimax that does not see the opponent win
minimax_Blind(squares, depth, isMaximizing, aiSymbol) ==
    LET result == checkWinner(squares)
        opponentSymbol == IF aiSymbol = "X" THEN "O" ELSE "X"
    IN IF result.winner = aiSymbol THEN 10 - depth
       ELSE IF result.winner # Null THEN 0
       ELSE IF isMaximizing
       THEN Max({minimax([squares EXCEPT ![i] = aiSymbol], depth + 1, FALSE, aiSymbol) :
                    i \in EmptyCells(squares)})
       ELSE Min({minimax([squares EXCEPT ![i] = opponentSymbol], depth + 1, TRUE, aiSymbol) :
                    i \in EmptyCells(squares)})

\* each loop tries every empty cell in turn and keeps the best score so far:
\* the greatest (least) of the scores of the moves, or -Infinity (Infinity)
minimax(squares, depth, isMaximizing, aiSymbol) ==
    LET result == checkWinner(squares)
        opponentSymbol == IF aiSymbol = "X" THEN "O" ELSE "X"
    IN IF result.winner = aiSymbol THEN 10 - depth
       ELSE IF result.winner = opponentSymbol THEN depth - 10
       ELSE IF result.winner = "Draw" THEN 0
       ELSE IF isMaximizing
       THEN Max({minimax([squares EXCEPT ![i] = aiSymbol], depth + 1, FALSE, aiSymbol) :
                    i \in EmptyCells(squares)})
       ELSE Min({minimax([squares EXCEPT ![i] = opponentSymbol], depth + 1, TRUE, aiSymbol) :
                    i \in EmptyCells(squares)})

\* a chooser that takes the first empty cell
getBestMove_First(squares, aiSymbol) ==
    IF EmptyCells(squares) = {} THEN -1
    ELSE CHOOSE i \in EmptyCells(squares) : \A j \in EmptyCells(squares) : i <= j

\* a chooser that answers the corner cell while the board is not full
getBestMove_Corner(squares, aiSymbol) ==
    IF EmptyCells(squares) = {} THEN -1 ELSE 0

\* the loop replaces move only by a strictly better score, so it ends with the
\* first of the empty cells whose score is the greatest, or -1 if there is none
getBestMove(squares, aiSymbol) ==
    LET scored == {<<i, minimax([squares EXCEPT ![i] = aiSymbol], 0, FALSE, aiSymbol)>> :
                      i \in EmptyCells(squares)}
        best == {p \in scored : p[2] > -Infinity /\ \A q \in scored : p[2] >= q[2]}
    IN IF best = {} THEN -1
       ELSE (CHOOSE p \in best : \A q \in best : p[1] <= q[1])[1]

\* socket.emit(ev, arg): one message to one connection
Unicast(id, ev, arg) ==
    [dst |-> {id}, ev |-> ev, board |-> NoBoard, turn |-> "", arg |-> arg]

\* io.emit(ev, {board, turn}): one message to every connection
Broadcast_Everyone(members, ev, room) ==
    [dst |-> Conns, ev |-> ev, board |-> room.board, turn |-> room.turn, arg |-> ""]

\* io.to(roomCode).emit(ev, {board, turn}): one message to every member
Broadcast(members, ev, room) ==
    [dst |-> members, ev |-> ev, board |-> room.board, turn |-> room.turn, arg |-> ""]

ReadyMsg_Fresh(members, room) == Broadcast(members, "game_ready", NewRoom(""))

\* io.to(roomCode).emit("game_ready", { board: room.board, turn: room.turn })
ReadyMsg(members, room) == Broadcast(members, "game_ready", room)

FullReply_ToRoom(id, members) ==
    <<[dst |-> members, ev |-> "error", board |-> NoBoard, turn |-> "", arg |-> "Room is full"]>>

\* socket.emit("error", "Room is full")
FullReply(id, members) == <<Unicast(id, "error", "Room is full")>>

MoveAccepted_IgnoresTurn(rs, roomCode, index, symbol) ==
    /\ roomCode \in DOMAIN rs
    /\ BoardAt(rs[roomCode].board, index) = Null

MoveAccepted_IgnoresCell(rs, roomCode, index, symbol) ==
    /\ roomCode \in DOMAIN rs
    /\ index \in Cells
    /\ rs[roomCode].turn = symbol

\* room && room.board[index] === null && room.turn === symbol
MoveAccepted(rs, roomCode, index, symbol) ==
    /\ roomCode \in DOMAIN rs
    /\ BoardAt(rs[roomCode].board, index) = Null
    /\ rs[roomCode].turn = symbol

\* a server that trusts only the owner of the symbol
\* a handler that writes the cell and leaves the turn as it is
make_moveR_NoFlip(id, rs, members, roomCode, index, symbol) ==
    IF MoveAccepted(rs, roomCode, index, symbol)
    THEN LET moved == [rs EXCEPT ![roomCode].board[index] = symbol]
         IN [accepted |-> TRUE, rooms |-> moved,
             out |-> <<Broadcast(members, "move_made", moved[roomCode])>>]
    ELSE [accepted |-> FALSE, rooms |-> rs, out |-> <<>>]

make_moveR_Bound(id, rs, members, roomCode, index, symbol) ==
    IF /\ MoveAccepted(rs, roomCode, index, symbol)
       /\ \E k \in 1..Len(rs[roomCode].players) :
              rs[roomCode].players[k] = id /\ symbol = (IF k = 1 THEN "X" ELSE "O")
    THEN LET moved == [rs EXCEPT ![roomCode].board[index] = symbol,
                                 ![roomCode].turn = Other(symbol)]
         IN [accepted |-> TRUE, rooms |-> moved,
             out |-> <<Broadcast(members, "move_made", moved[roomCode])>>]
    ELSE [accepted |-> FALSE, rooms |-> rs, out |-> <<>>]

\* what the make_move handler does to the registry and what it emits
make_moveR(id, rs, members, roomCode, index, symbol) ==
    IF MoveAccepted(rs, roomCode, index, symbol)
    THEN LET moved == [rs EXCEPT ![roomCode].board[index] = symbol,
                                 ![roomCode].turn = Other(symbol)]
         IN [accepted |-> TRUE, rooms |-> moved,
             out |-> <<Broadcast(members, "move_made", moved[roomCode])>>]
    ELSE [accepted |-> FALSE, rooms |-> rs, out |-> <<>>]

VARIABLES
    rooms,      \* the registry: room code -> [players, board, turn]
    sockRooms,  \* socket.io room membership: room code -> set of socket ids
    sock,       \* socket id -> "new" | "open" | "closed"
    req,        \* the request handled last
    out,        \* the messages the last handler emitted, in order
    assigned,   \* history: <<socket id, room code, symbol>> of every player_assignment
    lastMove,   \* history: room code -> symbol of the last accepted move since creation/reset
    app,        \* client: the React state of each tab in online mode
    csock,      \* client side of each socket: "new" | "open" | "closed"
    c2s,        \* socket id -> requests on their way to the server
    s2c,        \* socket id -> messages on their way to the client
    single,     \* client: the React state of a tab in single-player mode
    squares,    \* the board handed to the function under evaluation
    aiSymbol,   \* the symbol handed to getBestMove
    ret,        \* the function applied last and the value it returned
    first       \* history: the board the evaluation started from

srvVars == <<rooms, sockRooms, sock, assigned, lastMove>>

logVars == <<req, out>>

netVars == <<app, csock, c2s, s2c>>

evalVars == <<squares, aiSymbol, ret, first>>

localVars == <<single, evalVars>>

vars == <<rooms, sockRooms, sock, req, out, assigned, lastMove, app, csock, c2s, s2c,
          single, squares, aiSymbol, ret, first>>

NoSocket == "none"

\* the useState initial values the online mode uses
NewApp ==
    [socket |-> NoSocket, roomCode |-> "", mySymbol |-> Null, isMultiReady |-> FALSE,
     board |-> EmptyBoard, isXNext |-> TRUE, winner |-> Null, winningLine |-> <<>>]

NoReq == [op |-> "none", id |-> "", roomCode |-> "", index |-> 0, symbol |-> ""]

\* the useState initial values the single-player mode uses
NewSingle ==
    [userSymbol |-> Null, board |-> EmptyBoard, isXNext |-> TRUE,
     winner |-> Null, winningLine |-> <<>>]

NoRet == [fn |-> "none", val |-> Null]

\* no tab in single-player mode, no function under evaluation
InitLocal ==
    /\ single = NewSingle
    /\ squares = EmptyBoard
    /\ aiSymbol = "X"
    /\ ret = NoRet
    /\ first = EmptyBoard

InitOnline ==
    /\ rooms = <<>>
    /\ sockRooms = [c \in Codes |-> {}]
    /\ sock = [s \in Conns |-> "new"]
    /\ req = NoReq
    /\ out = <<>>
    /\ assigned = {}
    /\ lastMove = <<>>
    /\ app = [a \in Apps |-> NewApp]
    /\ csock = [s \in Conns |-> "new"]
    /\ c2s = [s \in Conns |-> <<>>]
    /\ s2c = [s \in Conns |-> <<>>]

Init == InitOnline /\ InitLocal

\* ---------------------------------------------------------------- server
\* what the join_room handler does to the registry, whom it assigns which
\* symbol and what it emits; members already holds the joiner (socket.join)
join_roomR(id, rs, members, roomCode) ==
    IF roomCode \notin DOMAIN rs
    THEN [rooms |-> [c \in DOMAIN rs \cup {roomCode} |->
                        IF c = roomCode THEN NewRoom(id) ELSE rs[c]],
          symbol |-> "X",
          out |-> <<Unicast(id, "player_assignment", "X")>>]
    ELSE IF HasSeat(rs[roomCode])
    THEN LET seated == [rs EXCEPT ![roomCode].players = Append(@, id)]
         IN [rooms |-> seated,
             symbol |-> "O",
             out |-> <<Unicast(id, "player_assignment", "O"),
                       ReadyMsg(members, seated[roomCode])>>]
    ELSE [rooms |-> rs, symbol |-> Null, out |-> FullReply(id, members)]

\* what the reset_game handler does to the registry and what it emits
reset_gameR(rs, members, roomCode) ==
    IF roomCode \in DOMAIN rs
    THEN LET fresh == [rs EXCEPT ![roomCode] = ResetRoom(@)]
         IN [accepted |-> TRUE, rooms |-> fresh,
             out |-> <<Broadcast(members, "game_reset", fresh[roomCode])>>]
    ELSE [accepted |-> FALSE, rooms |-> rs, out |-> <<>>]

connectionH(id) ==
    /\ sock[id] = "new"
    /\ sock' = [sock EXCEPT ![id] = "open"]
    /\ UNCHANGED <<rooms, sockRooms, assigned, lastMove>>

join_roomH(id, roomCode) ==
    LET r == join_roomR(id, rooms, sockRooms[roomCode] \cup {id}, roomCode)
    IN /\ sockRooms' = [sockRooms EXCEPT ![roomCode] = @ \cup {id}]
       /\ rooms' = r.rooms
       /\ assigned' = IF r.symbol = Null THEN assigned
                      ELSE assigned \cup {<<id, roomCode, r.symbol>>}
       /\ lastMove' = [c \in DOMAIN r.rooms |->
                          IF c \in DOMAIN rooms THEN lastMove[c] ELSE "none"]

make_moveH(id, roomCode, index, symbol) ==
    LET r == make_moveR(id, rooms, sockRooms[roomCode], roomCode, index, symbol)
    IN /\ rooms' = r.rooms
       /\ lastMove' = IF r.accepted THEN [lastMove EXCEPT ![roomCode] = symbol]
                                    ELSE lastMove
       /\ UNCHANGED <<sockRooms, assigned>>

reset_gameH(id, roomCode) ==
    LET r == reset_gameR(rooms, sockRooms[roomCode], roomCode)
    IN /\ rooms' = r.rooms
       /\ lastMove' = IF r.accepted THEN [lastMove EXCEPT ![roomCode] = "none"]
                                    ELSE lastMove
       /\ UNCHANGED <<sockRooms, assigned>>

\* a handler that cleaned up: the connection leaves the participants of its rooms
disconnectH_Evicts(id) ==
    /\ sock[id] = "open"
    /\ sock' = [sock EXCEPT ![id] = "closed"]
    /\ sockRooms' = [c \in Codes |-> sockRooms[c] \ {id}]
    /\ rooms' = [c \in DOMAIN rooms |->
                    [rooms[c] EXCEPT !.players = SelectSeq(@, LAMBDA p : p # id)]]
    /\ UNCHANGED <<assigned, lastMove>>

\* the handler only logs; socket.io itself takes the socket out of its rooms
disconnectH(id) ==
    /\ sock[id] = "open"
    /\ sock' = [sock EXCEPT ![id] = "closed"]
    /\ sockRooms' = [c \in Codes |-> sockRooms[c] \ {id}]
    /\ UNCHANGED <<rooms, assigned, lastMove>>

\* the request handled and the messages it emitted, kept for inspection
Logged(op, id, roomCode, index, symbol, emitted) ==
    /\ req' = [op |-> op, id |-> id, roomCode |-> roomCode,
               index |-> index, symbol |-> symbol]
    /\ out' = emitted

\* the bound on marks only keeps the state space small: no accepted move beyond it
WithinMarks(roomCode, index, symbol) ==
    MoveAccepted(rooms, roomCode, index, symbol) =>
        Marks(rooms[roomCode].board) < MaxMarks

connection(id) ==
    /\ connectionH(id)
    /\ Logged("connection", id, "", 0, "", <<>>)
    /\ UNCHANGED <<netVars, localVars>>

disconnect(id) ==
    /\ disconnectH(id)
    /\ Logged("disconnect", id, "", 0, "", <<>>)
    /\ UNCHANGED <<netVars, localVars>>

join_room(id, roomCode) ==
    /\ sock[id] = "open"
    /\ join_roomH(id, roomCode)
    /\ Logged("join_room", id, roomCode, 0, "",
              join_roomR(id, rooms, sockRooms[roomCode] \cup {id}, roomCode).out)
    /\ UNCHANGED <<sock, netVars, localVars>>

make_move(id, roomCode, index, symbol) ==
    /\ sock[id] = "open"
    /\ WithinMarks(roomCode, index, symbol)
    /\ make_moveH(id, roomCode, index, symbol)
    /\ Logged("make_move", id, roomCode, index, symbol,
              make_moveR(id, rooms, sockRooms[roomCode], roomCode, index, symbol).out)
    /\ UNCHANGED <<sock, netVars, localVars>>

reset_game(id, roomCode) ==
    /\ sock[id] = "open"
    /\ reset_gameH(id, roomCode)
    /\ Logged("reset_game", id, roomCode, 0, "",
              reset_gameR(rooms, sockRooms[roomCode], roomCode).out)
    /\ UNCHANGED <<sock, netVars, localVars>>

Next ==
    \/ \E id \in Conns : connection(id)
    \/ \E id \in Conns, roomCode \in JoinCodes : join_room(id, roomCode)
    \/ \E id \in Conns, roomCode \in Codes, index \in Indices, symbol \in Symbols :
           make_move(id, roomCode, index, symbol)
    \/ \E id \in Conns, roomCode \in Codes : reset_game(id, roomCode)
    \/ \E id \in Conns : disconnect(id)

Spec == Init /\ [][Next]_vars

\* make_move with no bound on the marks
playMove(id, roomCode, index, symbol) ==
    /\ sock[id] = "open"
    /\ make_moveH(id, roomCode, index, symbol)
    /\ Logged("make_move", id, roomCode, index, symbol,
              make_moveR(id, rooms, sockRooms[roomCode], roomCode, index, symbol).out)
    /\ UNCHANGED <<sock, netVars, localVars>>

\* one connection plays a room to the full board, moving for both symbols
NextRoom ==
    \/ \E id \in RoomConns : connection(id)
    \/ \E id \in RoomConns, roomCode \in JoinCodes : join_room(id, roomCode)
    \/ \E id \in RoomConns, roomCode \in JoinCodes, index \in Cells, symbol \in {"X", "O"} :
           playMove(id, roomCode, index, symbol)
    \/ \E id \in RoomConns, roomCode \in JoinCodes : reset_game(id, roomCode)

SpecRoom == Init /\ [][NextRoom]_vars

\* one connection sends make_move payloads of any shape
NextPayload ==
    \/ \E id \in RoomConns : connection(id)
    \/ \E id \in RoomConns, roomCode \in JoinCodes : join_room(id, roomCode)
    \/ \E id \in RoomConns, roomCode \in Codes, index \in PayloadIndices,
          symbol \in PayloadSymbols : make_move(id, roomCode, index, symbol)
    \/ \E id \in RoomConns, roomCode \in Codes : reset_game(id, roomCode)

SpecPayload == Init /\ [][NextPayload]_vars

\* two connections join, play and reset the rooms A and B in any order
NextTwoRooms ==
    \/ \E id \in TwoConns : connection(id)
    \/ \E id \in TwoConns, roomCode \in Codes : join_room(id, roomCode)
    \/ \E id \in TwoConns, roomCode \in Codes, index \in ClickCells, symbol \in {"X", "O"} :
           playMove(id, roomCode, index, symbol)
    \/ \E id \in TwoConns, roomCode \in Codes : reset_game(id, roomCode)
    \/ \E id \in TwoConns : disconnect(id)

SpecTwoRooms == Init /\ [][NextTwoRooms]_vars

\* ------------------------------------------------------- client and network
\* socket.emit on the client: the request joins the socket's queue
Emit(s, m) == c2s' = [c2s EXCEPT ![s] = Append(@, m)]

\* socket.disconnect() on the client: nothing more is received on s
Close(q, s) == [q EXCEPT ![s] = <<>>]

\* the messages a handler emitted go out to the sockets still listening
Fanout(emitted) ==
    s2c' = [s \in Conns |->
              IF csock[s] = "open"
              THEN s2c[s] \o SelectSeq(emitted, LAMBDA m : s \in m.dst)
              ELSE <<>>]

\* no queue of a listening socket outgrows the bound
HasRoom == \A s \in Conns : Len(s2c'[s]) <= MaxQueue

\* the user acts again only after the server has taken the socket's last request
NoneUnderWay(s) == c2s[s] = <<>>

\* joinMultiplayer / createRoom: a new socket, join_room sent on it; the
\* effect cleanup disconnects the socket the tab held before
joinMultiplayer(a, code) ==
    /\ ~app[a].isMultiReady
    /\ \E k \in 1..Len(ConnOrder) :
          /\ csock[ConnOrder[k]] = "new"
          /\ \A j \in 1..(k - 1) : csock[ConnOrder[j]] # "new"
          /\ LET old == app[a].socket
                 s == ConnOrder[k]
             IN /\ csock' = [t \in Conns |-> IF t = s THEN "open"
                                              ELSE IF t = old THEN "closed"
                                              ELSE csock[t]]
                /\ s2c' = IF old = NoSocket THEN s2c ELSE Close(s2c, old)
                /\ app' = [app EXCEPT ![a].socket = s, ![a].roomCode = code]
                /\ Emit(s, [op |-> "join_room", roomCode |-> code,
                            index |-> 0, symbol |-> ""])
    /\ UNCHANGED <<srvVars, logVars, localVars>>

\* a click handler that does not look at whose turn it is
handleSquareClick_AnyTurn(a, index) ==
    LET st == app[a]
    IN /\ ~(st.board[index] # Null \/ st.winner # Null)
       /\ st.isMultiReady
       /\ st.socket # NoSocket
       /\ NoneUnderWay(st.socket)
       /\ Emit(st.socket, [op |-> "make_move", roomCode |-> st.roomCode,
                           index |-> index, symbol |-> st.mySymbol])
       /\ UNCHANGED <<srvVars, logVars, localVars, app, csock, s2c>>

\* a click handler that also shows the mark at once
handleSquareClick_Optimistic(a, index) ==
    LET st == app[a]
    IN /\ ~(st.board[index] # Null \/ st.winner # Null)
       /\ ~( \/ ~st.isMultiReady
             \/ (st.isXNext /\ st.mySymbol # "X")
             \/ (~st.isXNext /\ st.mySymbol # "O") )
       /\ st.socket # NoSocket
       /\ NoneUnderWay(st.socket)
       /\ Emit(st.socket, [op |-> "make_move", roomCode |-> st.roomCode,
                           index |-> index, symbol |-> st.mySymbol])
       /\ app' = [app EXCEPT ![a].board[index] = st.mySymbol]
       /\ UNCHANGED <<srvVars, logVars, localVars, csock, s2c>>

\* handleSquareClick in online mode
handleSquareClick(a, index) ==
    LET st == app[a]
    IN /\ ~(st.board[index] # Null \/ st.winner # Null)
       /\ ~( \/ ~st.isMultiReady
             \/ (st.isXNext /\ st.mySymbol # "X")
             \/ (~st.isXNext /\ st.mySymbol # "O") )
       /\ st.socket # NoSocket
       /\ NoneUnderWay(st.socket)
       /\ Emit(st.socket, [op |-> "make_move", roomCode |-> st.roomCode,
                           index |-> index, symbol |-> st.mySymbol])
       /\ UNCHANGED <<srvVars, logVars, localVars, app, csock, s2c>>

\* resetGame in online mode; the button shows once the game is ready
resetGame(a) ==
    LET st == app[a]
    IN /\ st.isMultiReady
       /\ st.socket # NoSocket
       /\ NoneUnderWay(st.socket)
       /\ Emit(st.socket, [op |-> "reset_game", roomCode |-> st.roomCode,
                           index |-> 0, symbol |-> ""])
       /\ UNCHANGED <<srvVars, logVars, localVars, app, csock, s2c>>

\* quitGame, and back into the online lobby
quitGame(a) ==
    LET old == app[a].socket
    IN /\ old # NoSocket
       /\ csock' = [csock EXCEPT ![old] = "closed"]
       /\ s2c' = Close(s2c, old)
       /\ app' = [app EXCEPT ![a] = NewApp]
       /\ UNCHANGED <<srvVars, logVars, localVars, c2s>>

\* a move_made listener that forgets whose turn it is
OnMessage_KeepsTurn(st, m) ==
    CASE m.ev = "player_assignment" ->
            [st EXCEPT !.mySymbol = m.arg]
      [] m.ev = "game_ready" ->
            [st EXCEPT !.board = m.board, !.isXNext = (m.turn = "X"),
                       !.isMultiReady = TRUE]
      [] m.ev = "move_made" ->
            [st EXCEPT !.board = m.board]
      [] m.ev = "game_reset" ->
            [st EXCEPT !.board = m.board, !.isXNext = (m.turn = "X"),
                       !.winner = Null, !.winningLine = <<>>]
      [] m.ev = "error" ->
            [st EXCEPT !.socket = NoSocket]

\* the listeners joinMultiplayer registers on the socket
OnMessage(st, m) ==
    CASE m.ev = "player_assignment" ->
            [st EXCEPT !.mySymbol = m.arg]
      [] m.ev = "game_ready" ->
            [st EXCEPT !.board = m.board, !.isXNext = (m.turn = "X"),
                       !.isMultiReady = TRUE]
      [] m.ev = "move_made" ->
            LET result == checkWinner(m.board)
                shown == [st EXCEPT !.board = m.board, !.isXNext = (m.turn = "X")]
            IN IF result # NoResult
               THEN [shown EXCEPT !.winner = result.winner, !.winningLine = result.line]
               ELSE shown
      [] m.ev = "game_reset" ->
            [st EXCEPT !.board = m.board, !.isXNext = (m.turn = "X"),
                       !.winner = Null, !.winningLine = <<>>]
      [] m.ev = "error" ->
            [st EXCEPT !.socket = NoSocket]

\* the tab receives the next message of its socket
Receive(a) ==
    LET s == app[a].socket
    IN /\ s # NoSocket
       /\ s2c[s] # <<>>
       /\ LET m == Head(s2c[s])
          IN /\ app' = [app EXCEPT ![a] = OnMessage(@, m)]
             /\ IF m.ev = "error"
                THEN /\ csock' = [csock EXCEPT ![s] = "closed"]
                     /\ s2c' = Close(s2c, s)
                ELSE /\ s2c' = [s2c EXCEPT ![s] = Tail(@)]
                     /\ UNCHANGED csock
       /\ UNCHANGED <<srvVars, logVars, localVars, c2s>>

\* the server learns of a socket the client opened
NetConnection(s) ==
    /\ csock[s] # "new"
    /\ connectionH(s)
    /\ UNCHANGED <<logVars, localVars, netVars>>

\* the server learns that the client closed the socket; what the socket had
\* still sent may or may not have been handled by then
NetDisconnect(s) ==
    /\ csock[s] = "closed"
    /\ disconnectH(s)
    /\ c2s' = Close(c2s, s)
    /\ UNCHANGED <<logVars, localVars, app, csock, s2c>>

\* the server handles the next request of a socket, to completion
Pending(s, op) ==
    /\ sock[s] = "open"
    /\ c2s[s] # <<>>
    /\ Head(c2s[s]).op = op

Handled(s, emitted) ==
    /\ c2s' = [c2s EXCEPT ![s] = Tail(@)]
    /\ Fanout(emitted)
    /\ HasRoom
    /\ UNCHANGED <<sock, logVars, localVars, app, csock>>

SrvJoin(s) ==
    /\ Pending(s, "join_room")
    /\ LET c == Head(c2s[s]).roomCode
       IN /\ join_roomH(s, c)
          /\ Handled(s, join_roomR(s, rooms, sockRooms[c] \cup {s}, c).out)

SrvMove(s) ==
    /\ Pending(s, "make_move")
    /\ LET m == Head(c2s[s])
       IN /\ make_moveH(s, m.roomCode, m.index, m.symbol)
          /\ Handled(s, make_moveR(s, rooms, sockRooms[m.roomCode],
                                   m.roomCode, m.index, m.symbol).out)

SrvReset(s) ==
    /\ Pending(s, "reset_game")
    /\ LET c == Head(c2s[s]).roomCode
       IN /\ reset_gameH(s, c)
          /\ Handled(s, reset_gameR(rooms, sockRooms[c], c).out)

NextNet ==
    \/ \E a \in Apps, code \in JoinCodes : joinMultiplayer(a, code)
    \/ \E a \in Apps, index \in ClickCells : handleSquareClick(a, index)
    \/ \E a \in Apps : resetGame(a)
    \/ \E a \in Apps : quitGame(a)
    \/ \E a \in Apps : Receive(a)
    \/ \E s \in Conns : NetConnection(s)
    \/ \E s \in Conns : NetDisconnect(s)
    \/ \E s \in Conns : SrvJoin(s)
    \/ \E s \in Conns : SrvMove(s)
    \/ \E s \in Conns : SrvReset(s)

\* online play on cells enough for a line to be completed: the tabs join,
\* click and receive; nobody resets or quits
NextPlay ==
    \/ \E a \in Apps, code \in JoinCodes : joinMultiplayer(a, code)
    \/ \E a \in Apps, index \in PlayCells : handleSquareClick(a, index)
    \/ \E a \in Apps : Receive(a)
    \/ \E s \in Conns : NetConnection(s)
    \/ \E s \in Conns : SrvJoin(s)
    \/ \E s \in Conns : SrvMove(s)

SpecPlay == Init /\ [][NextPlay]_vars

\* every message in flight is delivered, every request that arrived is handled
FairNet ==
    /\ \A a \in Apps : WF_vars(Receive(a))
    /\ \A s \in Conns : SF_vars(NetConnection(s) \/ SrvJoin(s) \/ SrvMove(s) \/ SrvReset(s))

SpecNet == Init /\ [][NextNet]_vars /\ FairNet

\* ------------------------------------------------------ single-player mode
\* the symbol whose turn the tab shows
TurnOf(st) == IF st.isXNext THEN "X" ELSE "O"

\* setBoard(newBoard) and, when checkWinner returns a result, setWinner/setWinningLine
Shown(st, newBoard, xNext) ==
    LET result == checkWinner(newBoard)
        moved == [st EXCEPT !.board = newBoard, !.isXNext = xNext]
    IN IF result # NoResult
       THEN [moved EXCEPT !.winner = result.winner, !.winningLine = result.line]
       ELSE moved

\* the symbol selection screen: START AS X / START AS O
setUserSymbol(symbol) ==
    /\ single.userSymbol = Null
    /\ single' = [single EXCEPT !.userSymbol = symbol]
    /\ UNCHANGED <<srvVars, logVars, netVars, evalVars>>

\* handleSquareClick in single-player mode
handleSquareClickSingle(index) ==
    /\ ~(single.board[index] # Null \/ single.winner # Null)
    /\ ~(TurnOf(single) # single.userSymbol)
    /\ single' = Shown(single, [single.board EXCEPT ![index] = TurnOf(single)],
                       ~single.isXNext)
    /\ UNCHANGED <<srvVars, logVars, netVars, evalVars>>

\* the effect that moves for the AI, once its timer has fired
aiEffect ==
    /\ single.userSymbol # Null
    /\ TurnOf(single) # single.userSymbol
    /\ single.winner = Null
    /\ \E bestMove \in {getBestMove(single.board,
                                     IF single.userSymbol = "X" THEN "O" ELSE "X")} :
          /\ bestMove # -1
          /\ single' = Shown(single,
                             [single.board EXCEPT ![bestMove] =
                                 IF single.userSymbol = "X" THEN "O" ELSE "X"],
                             single.userSymbol = "X")
    /\ UNCHANGED <<srvVars, logVars, netVars, evalVars>>

\* resetGame outside the online mode
resetGameSingle ==
    /\ single.userSymbol # Null
    /\ single.board # EmptyBoard
    /\ single' = [single EXCEPT !.board = EmptyBoard, !.isXNext = TRUE,
                                !.winner = Null, !.winningLine = <<>>]
    /\ UNCHANGED <<srvVars, logVars, netVars, evalVars>>

\* quitGame, and single-player mode chosen again
quitGameSingle ==
    /\ single.userSymbol # Null
    /\ single' = NewSingle
    /\ UNCHANGED <<srvVars, logVars, netVars, evalVars>>

NextSingle ==
    \/ \E symbol \in {"X", "O"} : setUserSymbol(symbol)
    \/ \E index \in Cells : handleSquareClickSingle(index)
    \/ aiEffect
    \/ resetGameSingle
    \/ quitGameSingle

SpecSingle == Init /\ [][NextSingle]_vars

\* ------------------------------------------------- the functions on boards
\* every array of nine cells, each empty, 'X' or 'O'
Boards == [Cells -> {Null, "X", "O"}]

Full(board) == \A i \in Cells : board[i] # Null

\* the side to move on a board reached by alternating from X, if it is one
ToMove(board) ==
    LET x == Cardinality({i \in Cells : board[i] = "X"})
        o == Cardinality({i \in Cells : board[i] = "O"})
    IN IF x = o THEN "X" ELSE IF x = o + 1 THEN "O" ELSE Null

\* any board and either symbol may be handed to the functions
InitEval ==
    /\ InitOnline
    /\ single = NewSingle
    /\ squares \in Boards
    /\ aiSymbol \in {"X", "O"}
    /\ ret = NoRet
    /\ first = squares

\* checkWinner(squares)
applyCheckWinner ==
    /\ ret = NoRet
    /\ ret' = [fn |-> "checkWinner", val |-> checkWinner(squares)]
    /\ UNCHANGED <<srvVars, logVars, netVars, single, squares, aiSymbol, first>>

\* getBestMove(squares, aiSymbol)
applyGetBestMove ==
    /\ ret = NoRet
    /\ ret' = [fn |-> "getBestMove", val |-> getBestMove(squares, aiSymbol)]
    /\ UNCHANGED <<srvVars, logVars, netVars, single, squares, aiSymbol, first>>

\* getBestMove for the side to move, its answer placed as the AI effect places
\* it, then the other side's turn: repeated until checkWinner returns a result
selfPlay ==
    /\ ToMove(squares) = aiSymbol
    /\ checkWinner(squares) = NoResult
    /\ \E bestMove \in {getBestMove(squares, aiSymbol)} :
          /\ squares' = IF bestMove # -1 THEN [squares EXCEPT ![bestMove] = aiSymbol]
                                         ELSE squares
          /\ ret' = [fn |-> "selfPlay", val |-> bestMove]
    /\ aiSymbol' = IF aiSymbol = "X" THEN "O" ELSE "X"
    /\ UNCHANGED <<srvVars, logVars, netVars, single, first>>

NextEval ==
    \/ applyCheckWinner
    \/ applyGetBestMove

SpecEval == InitEval /\ [][NextEval]_vars

\* the positions a self-played game starts from: the empty board, and the
\* boards with few empty cells that alternating from X can produce
InitSelfPlay ==
    /\ InitOnline
    /\ single = NewSingle
    /\ squares \in {b \in Boards : /\ ToMove(b) # Null
                                   /\ b = EmptyBoard \/ 9 - Marks(b) <= MaxSelfEmpty}
    /\ aiSymbol = ToMove(squares)
    /\ ret = NoRet
    /\ first = squares

NextSelfPlay == selfPlay

\* a mark of the side to move appears on some empty cell
markPlaced ==
    /\ ToMove(squares) = aiSymbol
    /\ checkWinner(squares) = NoResult
    /\ \E i \in Cells :
          /\ squares[i] = Null
          /\ squares' = [squares EXCEPT ![i] = aiSymbol]
          /\ ret' = [fn |-> "selfPlay", val |-> i]
    /\ aiSymbol' = IF aiSymbol = "X" THEN "O" ELSE "X"
    /\ UNCHANGED <<srvVars, logVars, netVars, single, first>>

\* the game is played on: while a mark can be placed, one eventually is
SpecSelfPlay == InitSelfPlay /\ [][NextSelfPlay]_vars /\ WF_vars(markPlaced)

\* ---------------------------------------------------- claims on the server
\* the request a step handles, read in the step's second state
IsReq(op) == req'.op = op

Opposite(symbol) == CHOOSE t \in {"X", "O"} : t # symbol

\* the claimed acceptance condition of a make_move payload, in the state it arrives in
ClaimedValid(roomCode, index, symbol) ==
    /\ roomCode \in DOMAIN rooms
    /\ index \in Cells
    /\ rooms[roomCode].board[index] = Null
    /\ rooms[roomCode].turn = symbol

\* C1: make_move is accepted iff the room exists, the cell is empty and the
\* turn equals the symbol; an accepted move writes exactly that cell, keeps
\* every other cell and the participants, flips the turn and broadcasts one
\* move_made with the post-move board and turn to the room.
C1_MoveContract ==
    [][IsReq("make_move") =>
        LET c == req'.roomCode
            i == req'.index
            s == req'.symbol
        IN /\ (out' # <<>>) <=> ClaimedValid(c, i, s)
           /\ (rooms' # rooms) <=> ClaimedValid(c, i, s)
           /\ ClaimedValid(c, i, s) =>
                /\ DOMAIN rooms' = DOMAIN rooms
                /\ \A d \in DOMAIN rooms \ {c} : rooms'[d] = rooms[d]
                /\ rooms'[c].board[i] = s
                /\ \A j \in Cells \ {i} : rooms'[c].board[j] = rooms[c].board[j]
                /\ rooms'[c].players = rooms[c].players
                /\ rooms'[c].turn = Opposite(s)
                /\ Len(out') = 1
                /\ out'[1].ev = "move_made"
                /\ out'[1].dst = sockRooms[c]
                /\ out'[1].board = rooms'[c].board
                /\ out'[1].turn = rooms'[c].turn
    ]_vars

\* an accepted O move onto a board that already holds an X
C1_Witness ==
    /\ req.op = "make_move"
    /\ req.symbol = "O"
    /\ Len(out) = 1
    /\ out[1].ev = "move_made"
    /\ out[1].board[req.index] = "O"
    /\ out[1].dst # {}

\* C2: a make_move on an occupied cell, a make_move out of turn, and a
\* make_move or reset_game naming an unknown room change nothing in the
\* registry and send no message at all.
C2_RejectedSilently ==
    [][ ( \/ /\ IsReq("make_move")
             /\ \/ req'.roomCode \notin DOMAIN rooms
                \/ /\ req'.index \in Cells
                   /\ rooms[req'.roomCode].board[req'.index] # Null
                \/ rooms[req'.roomCode].turn # req'.symbol
          \/ /\ IsReq("reset_game")
             /\ req'.roomCode \notin DOMAIN rooms )
        => /\ rooms' = rooms
           /\ out' = <<>>
           /\ sockRooms' = sockRooms
    ]_vars

\* a move by the symbol whose turn it is, onto an occupied cell, was dropped
C2_Witness ==
    /\ req.op = "make_move"
    /\ req.roomCode \in DOMAIN rooms
    /\ req.index \in Cells
    /\ rooms[req.roomCode].board[req.index] \in {"X", "O"}
    /\ rooms[req.roomCode].turn = req.symbol
    /\ out = <<>>

\* a join_room that finds the room with exactly one participant
SecondJoin ==
    /\ IsReq("join_room")
    /\ req'.roomCode \in DOMAIN rooms
    /\ Len(rooms[req'.roomCode].players) = 1

SecondJoinSeats ==
    LET c == req'.roomCode
    IN /\ rooms'[c].players = Append(rooms[c].players, req'.id)
       /\ Len(out') = 2
       /\ out'[1].ev = "player_assignment"
       /\ out'[1].arg = "O"
       /\ out'[1].dst = {req'.id}
       /\ out'[2].ev = "game_ready"
       /\ out'[2].dst = sockRooms[c] \cup {req'.id}

\* C3 as stated: the second join appends the joiner, sends it 'O' and
\* broadcasts a game_ready whose board is all-empty and whose turn is 'X'.
C3_ReadyIsFresh ==
    [][SecondJoin =>
        /\ SecondJoinSeats
        /\ out'[2].board = EmptyBoard
        /\ out'[2].turn = "X"
    ]_vars

\* C3 amended: the second join appends the joiner, sends it 'O' and
\* broadcasts a game_ready carrying the room's current board and turn, which
\* are all-empty and 'X' exactly when no move was accepted since creation or
\* the last reset.
C3_ReadyIsCurrent ==
    [][SecondJoin =>
        /\ SecondJoinSeats
        /\ out'[2].board = rooms[req'.roomCode].board
        /\ out'[2].turn = rooms[req'.roomCode].turn
        /\ lastMove[req'.roomCode] = "none" <=>
              (out'[2].board = EmptyBoard /\ out'[2].turn = "X")
    ]_vars

\* a game_ready that carries a board with a mark on it
C3_Witness ==
    /\ req.op = "join_room"
    /\ Len(out) = 2
    /\ out[2].ev = "game_ready"
    /\ out[2].board # EmptyBoard
    /\ Len(rooms[req.roomCode].players) = 2

\* C4: a join_room for a code not in the registry creates the room with the
\* joiner as sole participant, an all-empty board and turn 'X', sends
\* player_assignment 'X' to the joiner only and emits no game_ready.
C4_FirstJoin ==
    [][IsReq("join_room") /\ req'.roomCode \notin DOMAIN rooms =>
        LET c == req'.roomCode
        IN /\ DOMAIN rooms' = DOMAIN rooms \cup {c}
           /\ \A d \in DOMAIN rooms : rooms'[d] = rooms[d]
           /\ rooms'[c].players = <<req'.id>>
           /\ \A j \in Cells : rooms'[c].board[j] = Null
           /\ rooms'[c].turn = "X"
           /\ Len(out') = 1
           /\ out'[1].ev = "player_assignment"
           /\ out'[1].arg = "X"
           /\ out'[1].dst = {req'.id}
    ]_vars

\* the room was just created by the request handled last
C4_Witness ==
    /\ req.op = "join_room"
    /\ req.roomCode \in DOMAIN rooms
    /\ rooms[req.roomCode].players = <<req.id>>
    /\ Len(out) = 1
    /\ out[1].arg = "X"

\* C5: a join_room to a room with two participants sends exactly one error
\* 'Room is full' to the joiner, nothing to anyone else, and leaves the
\* registry as it was.
C5_FullRoom ==
    [][ /\ IsReq("join_room")
        /\ req'.roomCode \in DOMAIN rooms
        /\ Len(rooms[req'.roomCode].players) = 2
        => /\ rooms' = rooms
           /\ Len(out') = 1
           /\ out'[1].ev = "error"
           /\ out'[1].arg = "Room is full"
           /\ out'[1].dst = {req'.id}
    ]_vars

\* a third connection was turned away while both players are in the room
C5_Witness ==
    /\ req.op = "join_room"
    /\ Len(out) = 1
    /\ out[1].ev = "error"
    /\ Len(rooms[req.roomCode].players) = 2
    /\ \A k \in 1..2 : rooms[req.roomCode].players[k] # req.id
    /\ Cardinality(sockRooms[req.roomCode]) = 3

\* C6: every room has one or two participants; the first stored connection
\* is the one that was sent 'X' for the room, the second the one sent 'O'.
C6_Seats ==
    \A c \in DOMAIN rooms :
        LET p == rooms[c].players
        IN /\ Len(p) \in 1..2
           /\ {a \in assigned : a[2] = c /\ a[3] = "X"} = {<<p[1], c, "X">>}
           /\ {a \in assigned : a[2] = c /\ a[3] = "O"} =
                 (IF Len(p) = 2 THEN {<<p[2], c, "O">>} ELSE {})

\* a full room, after a third join was handled
C6_Witness ==
    /\ req.op = "join_room"
    /\ req.roomCode \in DOMAIN rooms
    /\ Len(rooms[req.roomCode].players) = 2
    /\ Len(out) = 1

\* C7: accepted moves of a room alternate: the first after creation or a
\* reset carries 'X', every other the opposite of the one accepted before.
C7_Alternation ==
    [][IsReq("make_move") /\ out' # <<>> =>
        LET prev == lastMove[req'.roomCode]
        IN /\ prev = "none" => req'.symbol = "X"
           /\ prev = "X" => req'.symbol = "O"
           /\ prev = "O" => req'.symbol = "X"
    ]_vars

\* a third accepted move in a row: X after O after X
C7_Witness ==
    /\ req.op = "make_move"
    /\ out # <<>>
    /\ req.symbol = "X"
    /\ Marks(rooms[req.roomCode].board) = 3

\* C8: reset_game for an existing room, from any connection and in any state
\* of the game, empties the board, sets the turn to 'X', keeps the
\* participants and broadcasts one game_reset with that board and turn; for
\* an unknown room it does nothing.
C8_Reset ==
    [][IsReq("reset_game") =>
        LET c == req'.roomCode
        IN IF c \in DOMAIN rooms
           THEN /\ DOMAIN rooms' = DOMAIN rooms
                /\ \A d \in DOMAIN rooms \ {c} : rooms'[d] = rooms[d]
                /\ \A j \in Cells : rooms'[c].board[j] = Null
                /\ rooms'[c].turn = "X"
                /\ rooms'[c].players = rooms[c].players
                /\ Len(out') = 1
                /\ out'[1].ev = "game_reset"
                /\ out'[1].dst = sockRooms[c]
                /\ out'[1].board = EmptyBoard
                /\ out'[1].turn = "X"
           ELSE rooms' = rooms /\ out' = <<>>
    ]_vars

\* a reset sent by a connection that is no participant of the room
C8_Witness ==
    /\ req.op = "reset_game"
    /\ Len(out) = 1
    /\ out[1].ev = "game_reset"
    /\ out[1].dst # {}
    /\ \A k \in 1..Len(rooms[req.roomCode].players) :
          rooms[req.roomCode].players[k] # req.id

\* C10: what make_move does depends on the room and the payload only: the
\* registry and the broadcast it leaves are those any other connection
\* sending the same payload would have left.
C10_SenderBlind ==
    [][IsReq("make_move") =>
        \A other \in Conns :
            LET r == make_moveR(other, rooms, sockRooms[req'.roomCode],
                                req'.roomCode, req'.index, req'.symbol)
            IN rooms' = r.rooms /\ out' = r.out
    ]_vars

\* the player assigned 'O' moved as 'X' and was accepted
C10_Witness ==
    /\ req.op = "make_move"
    /\ req.symbol = "X"
    /\ out # <<>>
    /\ Len(rooms[req.roomCode].players) = 2
    /\ rooms[req.roomCode].players[2] = req.id
    /\ rooms[req.roomCode].players[1] # req.id

IsPrefix(p, q) == Len(p) <= Len(q) /\ \A k \in 1..Len(p) : q[k] = p[k]

\* C11: the registry never shrinks: no step removes a room or a participant
\* (participants are only appended), a disconnect leaves every room as it
\* was, and a join_room for a room that has two participants is answered
\* with the error 'Room is full' to the joiner, whoever joins and whoever
\* has disconnected before.
C11_NeverShrinks ==
    [][ /\ DOMAIN rooms \subseteq DOMAIN rooms'
        /\ \A c \in DOMAIN rooms : IsPrefix(rooms[c].players, rooms'[c].players)
        /\ IsReq("disconnect") => rooms' = rooms
        /\ ( /\ IsReq("join_room")
             /\ req'.roomCode \in DOMAIN rooms
             /\ Len(rooms[req'.roomCode].players) = 2 )
           => /\ Len(out') = 1
              /\ out'[1].ev = "error"
              /\ out'[1].arg = "Room is full"
              /\ out'[1].dst = {req'.id}
              /\ rooms'[req'.roomCode].players = rooms[req'.roomCode].players
    ]_vars

\* a join was turned away although both participants of the room are gone
C11_Witness ==
    /\ req.op = "join_room"
    /\ Len(out) = 1
    /\ out[1].ev = "error"
    /\ Len(rooms[req.roomCode].players) = 2
    /\ \A k \in 1..2 : sock[rooms[req.roomCode].players[k]] = "closed"
    /\ sockRooms[req.roomCode] = {req.id}

\* the connections recorded in the room's participant list
Participants(room) == {room.players[k] : k \in 1..Len(room.players)}

\* C19: every game_ready, move_made and game_reset of a room goes only to
\* connections recorded in the room's participant list; a connection that
\* was answered 'Room is full' gets none of them.
C19_OnlyParticipants ==
    \A k \in 1..Len(out) :
        out[k].ev \in {"game_ready", "move_made", "game_reset"} =>
            out[k].dst \subseteq Participants(rooms[req.roomCode])

\* the number of cells of the board that hold the symbol
Count(board, symbol) == Cardinality({i \in Cells : board[i] = symbol})

\* C20: in every room the number of X cells minus the number of O cells is
\* 0 or 1 and the turn is 'X' exactly when they are equal, 'O' otherwise;
\* every accepted move adds one mark, so no more than 9 are accepted between
\* two resets, and every move on a full board is rejected.
C20_Balance ==
    /\ [](\A c \in DOMAIN rooms :
            LET x == Count(rooms[c].board, "X")
                o == Count(rooms[c].board, "O")
            IN /\ x - o \in {0, 1}
               /\ rooms[c].turn = (IF x = o THEN "X" ELSE "O"))
    /\ [][IsReq("make_move") /\ req'.roomCode \in DOMAIN rooms =>
            LET before == rooms[req'.roomCode].board
                after == rooms'[req'.roomCode].board
            IN /\ out' # <<>> => Marks(after) = Marks(before) + 1 /\ Marks(after) <= 9
               /\ (\A i \in Cells : before[i] # Null) => out' = <<>> /\ rooms' = rooms
       ]_vars

\* a move in turn was rejected on a board with nine marks
C20_Witness ==
    /\ req.op = "make_move"
    /\ out = <<>>
    /\ req.roomCode \in DOMAIN rooms
    /\ Marks(rooms[req.roomCode].board) = 9
    /\ req.symbol = rooms[req.roomCode].turn

\* --------------------------------------------------- claims on the network
\* no message of the server is on its way to a client
Quiet == \A s \in Conns : s2c[s] = <<>>

\* the tab holds a socket that is a participant of room c and has seen game_ready
ReadyParticipant(a, c) ==
    /\ app[a].socket # NoSocket
    /\ app[a].isMultiReady
    /\ \E k \in 1..Len(rooms[c].players) : rooms[c].players[k] = app[a].socket

SameView(a, c) ==
    /\ app[a].board = rooms[c].board
    /\ app[a].isXNext = (rooms[c].turn = "X")

Converged ==
    \A c \in DOMAIN rooms : \A a \in Apps : ReadyParticipant(a, c) => SameView(a, c)

\* a client sends a request
ClientEmits ==
    \/ \E a \in Apps, code \in JoinCodes : joinMultiplayer(a, code)
    \/ \E a \in Apps, index \in ClickCells : handleSquareClick(a, index)
    \/ \E a \in Apps : resetGame(a)

\* C9 as stated: whenever no server message is in flight every connected
\* participant that has seen game_ready shows the server's board and turn,
\* and under fair delivery such a state is reached after every accepted
\* join, move or reset, that is, whenever messages are in flight.
C9_AlwaysSettles == [](Quiet => Converged) /\ (~Quiet ~> Quiet)

\* C9 amended: the same agreement whenever no server message is in flight;
\* under fair delivery such a state is reached, and kept, once the clients
\* stop sending requests.
C9_SettlesWhenIdle ==
    [](Quiet => Converged) /\ ([]<><<ClientEmits>>_vars \/ <>[]Quiet)

\* both players have seen a move of O and nothing is in flight
C9_Witness ==
    /\ Quiet
    /\ "A" \in DOMAIN rooms
    /\ Marks(rooms["A"].board) = 2
    /\ \A a \in Apps : ReadyParticipant(a, "A") /\ SameView(a, "A")

\* the request the step puts on socket s, if it is one of kind op
Emitted(s, op) ==
    /\ Len(c2s'[s]) = Len(c2s[s]) + 1
    /\ c2s'[s][Len(c2s'[s])].op = op

\* C12: a client emits make_move only when it has seen game_ready, its
\* local winner is unset, the clicked cell is empty in its local board and
\* its local turn is its own symbol; the payload carries the symbol the
\* client holds, which is the one the server assigned to its socket.
C12_EmitGuard ==
    [][\A s \in Conns : Emitted(s, "make_move") =>
          LET m == c2s'[s][Len(c2s'[s])]
          IN \E a \in Apps :
                /\ app[a].socket = s
                /\ app[a].isMultiReady
                /\ app[a].winner = Null
                /\ m.index \in Cells
                /\ app[a].board[m.index] = Null
                /\ app[a].mySymbol \in {"X", "O"}
                /\ app[a].isXNext <=> (app[a].mySymbol = "X")
                /\ m.symbol = app[a].mySymbol
                /\ m.roomCode = app[a].roomCode
                /\ <<s, m.roomCode, m.symbol>> \in assigned
    ]_vars

\* a move of the second player is on its way to the server
C12_Witness ==
    \E a \in Apps :
        /\ app[a].socket # NoSocket
        /\ app[a].mySymbol = "O"
        /\ c2s[app[a].socket] # <<>>
        /\ Head(c2s[app[a].socket]).op = "make_move"
        /\ Head(c2s[app[a].socket]).symbol = "O"
        /\ Marks(app[a].board) = 1

\* what the tab shows of the game
View(st) == <<st.board, st.isXNext, st.winner>>

\* the message the step hands to tab a, if it is one that carries board and turn
Carried(a) ==
    IF app[a].socket # NoSocket /\ Receive(a)
          /\ Head(s2c[app[a].socket]).ev \in {"game_ready", "move_made", "game_reset"}
    THEN {Head(s2c[app[a].socket])}
    ELSE {}

\* C17: in online mode a cell click changes nothing of what the tab shows;
\* while the tab stays in online mode its board, turn and winner change only
\* when it receives game_ready, move_made or game_reset, and each of these
\* replaces the board and the turn by the ones the message carries.
C17_OnlyMessagesChangeView ==
    [][\A a \in Apps :
          /\ (\E index \in Cells : handleSquareClick(a, index)) => app'[a] = app[a]
          /\ (View(app'[a]) # View(app[a]) /\ ~quitGame(a)) => Carried(a) # {}
          /\ \A m \in Carried(a) :
                /\ app'[a].board = m.board
                /\ app'[a].isXNext = (m.turn = "X")
    ]_vars

\* the tab has clicked a cell and still shows it empty
C17_Witness ==
    \E a \in Apps :
        /\ app[a].socket # NoSocket
        /\ c2s[app[a].socket] # <<>>
        /\ Head(c2s[app[a].socket]).op = "make_move"
        /\ app[a].board[Head(c2s[app[a].socket]).index] = Null
        /\ Marks(app[a].board) = 1

\* ------------------------------------------------- claims on the functions
\* the eight lines of the board: rows, then columns, then diagonals
Lines ==
    << <<0, 1, 2>>, <<3, 4, 5>>, <<6, 7, 8>>,
       <<0, 3, 6>>, <<1, 4, 7>>, <<2, 5, 8>>,
       <<0, 4, 8>>, <<2, 4, 6>> >>

\* all three cells of the line hold the same symbol
Uniform(board, line) ==
    /\ board[line[1]] # Null
    /\ board[line[1]] = board[line[2]]
    /\ board[line[1]] = board[line[3]]

\* the board after the moves X@0, O@3, X@1, O@4, X@2
TopRowBoard ==
    [i \in Cells |-> IF i \in {0, 1, 2} THEN "X" ELSE IF i \in {3, 4} THEN "O" ELSE Null]

\* C13: on every board checkWinner returns a winner W with line L only if L
\* is the first of the eight lines (rows, columns, diagonals) that is
\* uniform, and its cells hold W; it returns Draw exactly when the board is
\* full and no line is uniform; otherwise it returns none. After X@0, O@3,
\* X@1, O@4, X@2 it returns X with line [0,1,2].
C13_CheckWinner ==
    ret.fn = "checkWinner" =>
        LET r == ret.val
            uniform == {k \in 1..8 : Uniform(squares, Lines[k])}
        IN /\ r.winner \in {"X", "O", "Draw", Null}
           /\ r.winner \in {"X", "O"} =>
                 \E k \in uniform :
                    /\ r.line = Lines[k]
                    /\ \A j \in 1..3 : squares[Lines[k][j]] = r.winner
                    /\ \A g \in uniform : k <= g
           /\ r.winner = "Draw" <=> (Full(squares) /\ uniform = {})
           /\ r.winner = Null <=> (~Full(squares) /\ uniform = {})
           /\ r.winner \in {"Draw", Null} => r.line = <<>>
           /\ squares = TopRowBoard => r = [winner |-> "X", line |-> <<0, 1, 2>>]

\* checkWinner was applied to a board with a uniform row and a uniform diagonal
C13_Witness ==
    /\ ret.fn = "checkWinner"
    /\ Uniform(squares, <<0, 1, 2>>)
    /\ Uniform(squares, <<0, 4, 8>>)
    /\ ret.val.line = <<0, 1, 2>>

\* C14: in single-player mode, whichever symbol the user chose and whatever
\* cells the user clicks, with the AI answering by getBestMove, no game ends
\* with the user's symbol as winner.
C14_AiUnbeaten ==
    single.userSymbol # Null => single.winner # single.userSymbol

\* a game the user opened as X and lost to the AI
C14_Witness ==
    /\ single.userSymbol = "X"
    /\ single.winner = "O"
    /\ Marks(single.board) = 6

\* C15: from the empty board, getBestMove applied alternately for X and
\* for O until checkWinner returns a result: no position of that game has a
\* winner, every position without a result is one more application away from
\* the next, and the game ends, in Draw.
C15_SelfPlayDraws ==
    /\ [](first = EmptyBoard =>
             /\ checkWinner(squares).winner \in {Null, "Draw"}
             /\ checkWinner(squares) = NoResult => ToMove(squares) = aiSymbol)
    /\ (first = EmptyBoard /\ ret = NoRet) ~> (checkWinner(squares).winner = "Draw")

\* the self-played game from the empty board is over
C15_Witness ==
    /\ first = EmptyBoard
    /\ ret.fn = "selfPlay"
    /\ Full(squares)
    /\ checkWinner(squares).winner = "Draw"

\* C16: for every board and either symbol getBestMove returns no index of
\* a filled cell: the index of an empty cell when there is one, -1 when
\* the board is full.
C16_BestMoveIsEmpty ==
    [][ret'.fn = "getBestMove" =>
          IF Full(squares)
          THEN ret'.val = -1
          ELSE ret'.val \in Cells /\ squares[ret'.val] = Null
    ]_vars

\* getBestMove answered on a board that already holds a uniform line
C16_Witness ==
    /\ ret.fn = "getBestMove"
    /\ \E k \in 1..8 : Uniform(squares, Lines[k])
    /\ squares[0] # Null
    /\ ret.val \in Cells
    /\ squares[ret.val] = Null

\* some line of the board is complete
Won(board) == \E k \in 1..8 : Uniform(board, Lines[k])

\* C18: with every make_move coming from handleSquareClick of a tab, over
\* asynchronous FIFO connections, the server accepts no move into a room
\* whose board already holds a completed line.
C18_NoMoveAfterWin ==
    [][\A c \in DOMAIN rooms :
          Marks(rooms'[c].board) > Marks(rooms[c].board) => ~Won(rooms[c].board)
    ]_vars

\* C21: whatever join_room requests arrive, a repeated join_room of the
\* same code from one connection included, no room's participant list
\* holds the same connection twice: no connection is both 'X' and 'O' of
\* one room.
C21_NoDuplicateSeat ==
    \A c \in DOMAIN rooms :
        /\ Cardinality(Participants(rooms[c])) = Len(rooms[c].players)
        /\ \A id \in Conns : ~({<<id, c, "X">>, <<id, c, "O">>} \subseteq assigned)

\* C22: whatever payload make_move carries, an index outside 0..8 or a
\* symbol that is neither 'X' nor 'O' included, every room's board stays
\* nine cells each empty, 'X' or 'O' and its turn stays 'X' or 'O'; a move
\* with such an index or symbol is rejected: registry and membership stay
\* as they were and nothing is emitted.
C22_PayloadSafe ==
    /\ [](\A c \in DOMAIN rooms :
             /\ DOMAIN rooms[c].board = Cells
             /\ \A i \in Cells : rooms[c].board[i] \in {Null, "X", "O"}
             /\ rooms[c].turn \in {"X", "O"})
    /\ [][(IsReq("make_move") /\ (req'.index \notin Cells \/ req'.symbol \notin {"X", "O"}))
             => rooms' = rooms /\ sockRooms' = sockRooms /\ out' = <<>>
         ]_vars

\* a move in turn onto index 9 or -1 of a room already played in was dropped
C22_Witness ==
    /\ req.op = "make_move"
    /\ req.roomCode \in DOMAIN rooms
    /\ req.index \notin Cells
    /\ req.symbol = rooms[req.roomCode].turn
    /\ Marks(rooms[req.roomCode].board) >= 1
    /\ out = <<>>

\* the connection is a member of some room other than c and not of c
OnlyElsewhere(s, c, membership) ==
    /\ s \notin membership[c]
    /\ \E d \in Codes \ {c} : s \in membership[d]

\* C23: handling a join_room, make_move or reset_game that names room c
\* leaves every other room as it was (present or absent, players, board
\* and turn) and sends nothing to a connection that has joined only other
\* rooms.
C23_OtherRoomsUntouched ==
    [][\A c \in Codes :
          (req'.op \in {"join_room", "make_move", "reset_game"} /\ req'.roomCode = c) =>
              /\ \A d \in Codes \ {c} :
                     /\ d \in DOMAIN rooms' <=> d \in DOMAIN rooms
                     /\ d \in DOMAIN rooms => rooms'[d] = rooms[d]
              /\ \A s \in Conns :
                     OnlyElsewhere(s, c, sockRooms') =>
                         \A k \in 1..Len(out') : s \notin out'[k].dst
    ]_vars

\* a connection that joined only room B, where a game is under way, had
\* its move accepted in room A and the move was broadcast
C23_Witness ==
    /\ req.op = "make_move"
    /\ req.roomCode = "A"
    /\ out # <<>>
    /\ "B" \in DOMAIN rooms
    /\ Marks(rooms["B"].board) >= 1
    /\ OnlyElsewhere(req.id, "A", sockRooms)
    /\ sockRooms["A"] # {}

TypeOK ==
    /\ DOMAIN rooms \subseteq Codes
    /\ \A c \in DOMAIN rooms :
          /\ rooms[c].board \in [Cells -> {Null, "X", "O"}]
          /\ rooms[c].turn \in {"X", "O"}
          /\ Len(rooms[c].players) \in 1..2
====
